---- MODULE Spec2Model ----
(***************************************************************************)
(* A model of http_server.py, the HTTP wrapper of the DeFi Yields MCP      *)
(* server: the lifespan and GET /health, the JSON-RPC dispatcher on        *)
(* POST /, the REST handlers on /pools and /analyze, the SSE generator on  *)
(* /pools/stream and the detached refresh task on /refresh.                *)
(*                                                                         *)
(* JSON values are tagged records; a JSON object (a Python dict) is a      *)
(* function from its keys to JSON values, so a missing key is a key that   *)
(* is not in its DOMAIN.  Python's None is the JSON null.                  *)
(***************************************************************************)
EXTENDS Integers, Sequences, FiniteSets, TLC

VARIABLES
    mcp,      \* the exchange on POST /            (mcp_endpoint)
    rest,     \* the last exchange of each verb on /pools and /analyze
    stream,   \* the generator behind GET /pools/stream
    refresh,  \* the POST /refresh calls and the task each one detached
    startup_time, \* the module global startup_time
    lifespan, \* the position of the lifespan context manager and its log
    clock,    \* what time.time() returns
    health,   \* the responses of GET /health, in the order they were sent
    session   \* history: an earlier exchange on POST / kept for comparison

vars == <<mcp, rest, stream, refresh, startup_time, lifespan, clock, health,
          session>>

----------------------------------------------------------------------------
(* Bounds of the model *)

\* the longest list of pools the upstream source returns
MaxPools == 2

\* the number of POST /refresh calls in one run
MaxRefresh == 2

\* the latest reading of the clock
MaxClock == 4

\* the number of GET /health calls in one run
MaxHealth == 3

----------------------------------------------------------------------------
(* The lifespan of the application, the clock and GET /health.             *)
(* The framework serves no request before the lifespan reaches its yield.  *)

\* the outcomes of the connectivity probe: the GET returned a 2xx, or the
\* client or raise_for_status raised; the one except clause treats every
\* exception alike, the timeout stands for them
ProbeOutcomes ==
    {[raised |-> FALSE, exc |-> ""],
     [raised |-> TRUE, exc |-> "timed out"]}

\* the process has been started and the lifespan has not been entered
LifespanBoot == [pc |-> "boot", probe |-> "none", log |-> <<>>]

\* a mutant of lifespan_probe: a failed probe propagates and startup aborts
lifespan_probe_fatal(state, outcome) ==
    IF outcome.raised
    THEN [state EXCEPT !.pc = "aborted", !.probe = "failed"]
    ELSE [state EXCEPT
             !.pc = "serving", !.probe = "ok",
             !.log = Append(@, "INFO Successfully connected to DefiLlama API")]

\* the try block of lifespan, up to the yield
lifespan_probe(state, outcome) ==
    IF outcome.raised
    THEN [state EXCEPT
             !.pc = "serving", !.probe = "failed",
             !.log = Append(@, "ERROR Failed to connect to DefiLlama API: "
                               \o outcome.exc)]
    ELSE [state EXCEPT
             !.pc = "serving", !.probe = "ok",
             !.log = Append(@, "INFO Successfully connected to DefiLlama API")]

\* the yield of lifespan has been reached: requests are served
Serving == lifespan.pc = "serving"

\* startup_time = time.time() and the first log line
LifespanStartup ==
    /\ lifespan.pc = "boot"
    /\ startup_time' = clock
    /\ lifespan' = [lifespan EXCEPT
                       !.pc = "probing",
                       !.log = <<"INFO DeFi Yields HTTP Server starting up...">>]
    /\ UNCHANGED <<mcp, rest, stream, refresh, clock, health, session>>

\* the connectivity probe returns or raises, and the lifespan yields
LifespanProbe ==
    /\ lifespan.pc = "probing"
    /\ \E outcome \in ProbeOutcomes :
           lifespan' = lifespan_probe(lifespan, outcome)
    /\ UNCHANGED <<mcp, rest, stream, refresh, startup_time, clock, health,
                   session>>

LifespanNext == LifespanStartup \/ LifespanProbe

\* time passes
Tick ==
    /\ clock < MaxClock
    /\ clock' = clock + 1
    /\ UNCHANGED <<mcp, rest, stream, refresh, startup_time, lifespan, health,
                   session>>

HealthResponse(uptime) ==
    [status |-> "healthy", version |-> "0.1.0", uptime |-> uptime]

\* a mutant of health_check: the difference is taken the wrong way round
health_check_negated(started, now) ==
    [status |-> 200, body |-> HealthResponse(started - now)]

\* the handler of GET /health
health_check(started, now) ==
    [status |-> 200, body |-> HealthResponse(now - started)]

\* a mutant of HealthCheck: the handler also resets startup_time
HealthCheckResetsStartup ==
    /\ Serving
    /\ Len(health) < MaxHealth
    /\ health' = Append(health, health_check(startup_time, clock))
    /\ startup_time' = clock
    /\ UNCHANGED <<mcp, rest, stream, refresh, lifespan, clock, session>>

HealthCheck ==
    /\ Serving
    /\ Len(health) < MaxHealth
    /\ health' = Append(health, health_check(startup_time, clock))
    /\ UNCHANGED <<mcp, rest, stream, refresh, startup_time, lifespan, clock,
                   session>>

HealthNext == Tick \/ HealthCheck

----------------------------------------------------------------------------
(* JSON values and the Python operations the handlers apply to them *)

Null == [t |-> "null"]

Str(s) == [t |-> "str", s |-> s]

Num(n) == [t |-> "num", n |-> n]

List == [t |-> "list"]

Obj(f) == [t |-> "obj", f |-> f]

\* the empty dict, {}
EmptyDict == <<>>

\* a key that the client left out (used only to enumerate inputs)
Absent == [t |-> "absent"]

\* str(v), as an f-string formats v
PyStr(v) ==
    CASE v.t = "null" -> "None"
      [] v.t = "str" -> v.s
      [] v.t = "num" -> ToString(v.n)
      [] v.t = "list" -> "[]"
      [] OTHER -> "{}"

\* type(v).__name__
PyTypeName(v) ==
    CASE v.t = "null" -> "NoneType"
      [] v.t = "str" -> "str"
      [] v.t = "num" -> "int"
      [] v.t = "list" -> "list"
      [] OTHER -> "dict"

\* whether v.get(...) can be called: only a dict has the method
HasGet(v) == v.t = "obj"

\* the message of the AttributeError that v.get(...) raises on a non-dict
NoGetMessage(v) == "'" \o PyTypeName(v) \o "' object has no attribute 'get'"

\* d.get(k, default) on a dict d
Get(d, k, default) == IF k \in DOMAIN d THEN d[k] ELSE default

\* whether the string s contains the string t
Contains(s, t) ==
    \E i \in 0..(Len(s) - Len(t)) : SubSeq(s, i + 1, i + Len(t)) = t

\* the dict with the single key k, or the empty dict when v is left out
Field(k, v) == IF v = Absent THEN EmptyDict ELSE (k :> v)

----------------------------------------------------------------------------
(* The collaborators: the yield data provider and the prompt generator.    *)
(* Their code (src.defi_yields_mcp) is imported by http_server.py; what is *)
(* modelled here is their interface: a fetch that returns the upstream     *)
(* pools narrowed by the filter or raises, and a prompt builder that       *)
(* returns a text or raises.  The pools are YieldPool records decoded from *)
(* the upstream's JSON, so json.dumps and the YieldPool model accept them. *)

PoolSteth ==
    [chain |-> "Ethereum", pool |-> "STETH", project |-> "lido",
     tvlUsd |-> 9000, apy |-> 3, apyMean30d |-> 3, predictions |-> EmptyDict]

PoolMsol ==
    [chain |-> "Solana", pool |-> "MSOL", project |-> "marinade-finance",
     tvlUsd |-> 500, apy |-> 7, apyMean30d |-> 6, predictions |-> EmptyDict]

Pools == {PoolSteth, PoolMsol}

\* the lists of at most n pools
PoolLists(n) == UNION {[1..k -> Pools] : k \in 0..n}

\* what the upstream source answers to one fetch: its pools, or a failure
Upstreams ==
    {[ok |-> TRUE, pools |-> ps, error |-> ""] : ps \in PoolLists(MaxPools)}
    \cup {[ok |-> FALSE, pools |-> <<>>, error |-> m] :
            m \in {"HTTP 503 from yields.llama.fi", "connect timeout"}}

\* what the prompt generator does on one call: builds the text, or fails
Generators ==
    {[ok |-> TRUE, error |-> ""], [ok |-> FALSE, error |-> "prompt failed"]}

\* a call's outcome: the value returned, or the message of the exception
Returned(value) == [raised |-> FALSE, value |-> value, exc |-> ""]

Raised(message) == [raised |-> TRUE, value |-> Null, exc |-> message]

\* whether a pool passes one filter field; None is no filter
Passes(field, filter) ==
    filter.t = "null" \/ (filter.t = "str" /\ filter.s = field)

get_yield_pools(upstream, chain, project, ctx) ==
    IF upstream.ok
    THEN Returned(SelectSeq(upstream.pools,
             LAMBDA p : Passes(p.chain, chain) /\ Passes(p.project, project)))
    ELSE Raised(upstream.error)

analyze_yields(generator, chain, project) ==
    IF generator.ok
    THEN Returned("Analyze DeFi yield pools"
                  \o (IF chain.t = "null" THEN "" ELSE " on " \o PyStr(chain))
                  \o (IF project.t = "null" THEN "" ELSE " of " \o PyStr(project)))
    ELSE Raised(generator.error)

\* the record of one call of a collaborator: what was passed, what came back
Call(fn, chain, project, ctx, returned) ==
    [fn |-> fn, chain |-> chain, project |-> project, ctx |-> ctx,
     returned |-> returned]

\* the methods of the MockContext classes of the handlers
FullContext == {"info", "error"}

InfoContext == {"info"}

----------------------------------------------------------------------------
(* json.dumps(pools, indent=2) *)

DumpsPool(p) ==
    "  {\n"
    \o "    \"chain\": \"" \o p.chain \o "\",\n"
    \o "    \"pool\": \"" \o p.pool \o "\",\n"
    \o "    \"project\": \"" \o p.project \o "\",\n"
    \o "    \"tvlUsd\": " \o ToString(p.tvlUsd) \o ",\n"
    \o "    \"apy\": " \o ToString(p.apy) \o ",\n"
    \o "    \"apyMean30d\": " \o ToString(p.apyMean30d) \o ",\n"
    \o "    \"predictions\": {}\n"
    \o "  }"

RECURSIVE DumpsItems(_)
DumpsItems(pools) ==
    IF Len(pools) = 1
    THEN DumpsPool(pools[1])
    ELSE DumpsPool(pools[1]) \o ",\n" \o DumpsItems(Tail(pools))

JsonDumps(pools) ==
    IF pools = <<>> THEN "[]" ELSE "[\n" \o DumpsItems(pools) \o "\n]"

----------------------------------------------------------------------------
(* POST / : mcp_endpoint.  The body of its try block is evaluated to       *)
(* either a result or the message of the exception raised, with the        *)
(* collaborator calls made and the lines logged on the way.                *)

Ok(result, calls, log) ==
    [raised |-> FALSE, result |-> result, exc |-> "", calls |-> calls, log |-> log]

Raise(message, calls, log) ==
    [raised |-> TRUE, result |-> Null, exc |-> message, calls |-> calls, log |-> log]

InitializeResult ==
    [protocolVersion |-> "2025-03-26",
     capabilities |-> [tools |-> EmptyDict, prompts |-> EmptyDict],
     serverInfo |-> [name |-> "DeFi Yields MCP Server", version |-> "0.1.0"]]

ToolsListResult ==
    [tools |-> <<[name |-> "get_yield_pools",
                  description |-> "Fetch DeFi yield pools from the yields.llama.fi API, optionally filtering by chain or project",
                  inputSchema |->
                      [type |-> "object",
                       properties |->
                           [chain |->
                                [type |-> "string",
                                 description |-> "Filter for blockchain (e.g., 'Ethereum', 'Solana')"],
                            project |->
                                [type |-> "string",
                                 description |-> "Filter for project name (e.g., 'lido', 'aave-v3')"]]]]>>]

PromptsListResult ==
    [prompts |-> <<[name |-> "analyze_yields",
                    description |-> "Generate a prompt to analyze DeFi yield pools, optionally filtered by chain or project",
                    arguments |->
                        <<[name |-> "chain",
                           description |-> "Optional blockchain filter",
                           required |-> FALSE],
                          [name |-> "project",
                           description |-> "Optional project filter",
                           required |-> FALSE]>>]>>]

\* method == "initialize"
McpInitialize(params) ==
    IF ~HasGet(params)
    THEN Raise(NoGetMessage(params), <<>>, <<>>)
    ELSE LET client_info == Get(params.f, "clientInfo", Obj(EmptyDict))
         IN  IF ~HasGet(client_info)
             THEN Raise(NoGetMessage(client_info), <<>>, <<>>)
             ELSE Ok(InitializeResult, <<>>,
                     <<"INFO MCP initialization from "
                       \o PyStr(Get(client_info.f, "name", Str("unknown")))
                       \o " v"
                       \o PyStr(Get(client_info.f, "version", Str("unknown")))>>)

\* a mutant of UnknownTool: the message leaves the name out
UnknownToolUnnamed(tool_name) == "Unknown tool"

\* raise ValueError(f"Unknown tool: {tool_name}")
UnknownTool(tool_name) == "Unknown tool: " \o PyStr(tool_name)

\* raise ValueError(f"Unknown prompt: {prompt_name}")
UnknownPrompt(prompt_name) == "Unknown prompt: " \o PyStr(prompt_name)

\* a mutant of UnknownMethod: the message leaves the method out
UnknownMethodUnnamed(method) == "Method not found"

\* raise ValueError(f"Unknown method: {method}")
UnknownMethod(method) == "Unknown method: " \o PyStr(method)

\* method == "tools/call"
McpToolsCall(params, upstream) ==
    IF ~HasGet(params)
    THEN Raise(NoGetMessage(params), <<>>, <<>>)
    ELSE LET tool_name == Get(params.f, "name", Null)
             arguments == Get(params.f, "arguments", Obj(EmptyDict))
         IN  IF tool_name = Str("get_yield_pools")
             THEN IF ~HasGet(arguments)
                  THEN Raise(NoGetMessage(arguments), <<>>, <<>>)
                  ELSE LET chain == Get(arguments.f, "chain", Null)
                           project == Get(arguments.f, "project", Null)
                           pools == get_yield_pools(upstream, chain, project, FullContext)
                           calls == <<Call("get_yield_pools", chain, project,
                                           FullContext, pools)>>
                       IN  IF pools.raised
                           THEN Raise(pools.exc, calls, <<>>)
                           ELSE Ok([content |-> <<[type |-> "text",
                                                   text |-> JsonDumps(pools.value)]>>],
                                   calls, <<>>)
             ELSE Raise(UnknownTool(tool_name), <<>>, <<>>)

\* method == "prompts/get"
McpPromptsGet(params, generator) ==
    IF ~HasGet(params)
    THEN Raise(NoGetMessage(params), <<>>, <<>>)
    ELSE LET prompt_name == Get(params.f, "name", Null)
             arguments == Get(params.f, "arguments", Obj(EmptyDict))
         IN  IF prompt_name = Str("analyze_yields")
             THEN IF ~HasGet(arguments)
                  THEN Raise(NoGetMessage(arguments), <<>>, <<>>)
                  ELSE LET chain == Get(arguments.f, "chain", Null)
                           project == Get(arguments.f, "project", Null)
                           prompt_text == analyze_yields(generator, chain, project)
                           calls == <<Call("analyze_yields", chain, project,
                                           {}, prompt_text)>>
                       IN  IF prompt_text.raised
                           THEN Raise(prompt_text.exc, calls, <<>>)
                           ELSE Ok([description |-> prompt_text.value,
                                    messages |->
                                        <<[role |-> "user",
                                           content |-> [type |-> "text",
                                                        text |-> prompt_text.value]]>>],
                                   calls, <<>>)
             ELSE Raise(UnknownPrompt(prompt_name), <<>>, <<>>)

\* the try block: the dispatch on the method
McpTry(method, params, upstream, generator) ==
    CASE method = Str("initialize") -> McpInitialize(params)
      [] method = Str("tools/list") -> Ok(ToolsListResult, <<>>, <<>>)
      [] method = Str("tools/call") -> McpToolsCall(params, upstream)
      [] method = Str("prompts/list") -> Ok(PromptsListResult, <<>>, <<>>)
      [] method = Str("prompts/get") -> McpPromptsGet(params, generator)
      [] OTHER -> Raise(UnknownMethod(method), <<>>, <<>>)

\* the return of the try block
McpResultResponse(request_id, result) ==
    [jsonrpc |-> "2.0", id |-> request_id, result |-> result]

\* a mutant of McpErrorResponse: the id is not read back from the request
McpErrorResponseDropsId(request, message) ==
    [jsonrpc |-> "2.0", id |-> Null,
     error |-> [code |-> -1, message |-> message]]

\* a mutant of McpErrorResponse: the error comes with a null result
McpErrorResponseWithResult(request, message) ==
    [jsonrpc |-> "2.0", id |-> Get(request, "id", Null), result |-> Null,
     error |-> [code |-> -1, message |-> message]]

\* the return of the except block
McpErrorResponse(request, message) ==
    [jsonrpc |-> "2.0", id |-> Get(request, "id", Null),
     error |-> [code |-> -1, message |-> message]]

\* the names bound whenever the dispatch raises: the parameter, the three
\* locals assigned at the head of the try block (request is a dict, so none
\* of the three get calls raises) and the exception itself
McpBoundAtRaise == {"request", "method", "params", "request_id", "e"}

\* a mutant of McpExceptReads: the log line also shows the result
McpExceptReadsResult == {"method", "request", "e", "result"}

\* the names the except block reads
McpExceptReads == {"method", "request", "e"}

\* what the framework sends when an exception leaves the handler
InternalServerError == [status |-> 500, body |-> "Internal Server Error"]

\* the handler: what it calls, logs and returns for one request
mcp_endpoint(request, upstream, generator) ==
    LET method == Get(request, "method", Null)
        params == Get(request, "params", Obj(EmptyDict))
        request_id == Get(request, "id", Null)
        body == McpTry(method, params, upstream, generator)
    IN  IF body.raised
        THEN IF McpExceptReads \subseteq McpBoundAtRaise
             THEN [calls |-> body.calls,
                   log |-> Append(body.log,
                                  "ERROR MCP Error (" \o PyStr(method) \o "): "
                                  \o body.exc),
                   response |-> McpErrorResponse(request, body.exc)]
             ELSE [calls |-> body.calls,
                   log |-> body.log,
                   response |-> InternalServerError]
        ELSE [calls |-> body.calls,
              log |-> body.log,
              response |-> McpResultResponse(request_id, body.result)]

(* The requests a client sends: every combination of the keys it may leave *)
(* out, set to null or set to a value of the wrong type.                   *)

KnownMethods ==
    {"initialize", "tools/list", "tools/call", "prompts/list", "prompts/get"}

MethodInputs ==
    {Absent, Null}
    \cup {Str(m) : m \in KnownMethods \cup {"resources/list", "ping"}}

IdInputs == {Absent, Null, Num(7), Str("req-1")}

ChainInputs == {Absent, Str("Ethereum")}

ProjectInputs == {Absent, Str("lido")}

ArgumentsInputs ==
    {Absent, Null}
    \cup {Obj(Field("chain", c) @@ Field("project", p)) :
            c \in ChainInputs, p \in ProjectInputs}

NameInputs ==
    {Absent, Null, Str("get_yield_pools"), Str("analyze_yields"), Str("bogus")}

ClientInfoInputs ==
    {Absent, Null, Obj(("name" :> Str("n8n")) @@ ("version" :> Num(1)))}

ParamsInputs ==
    {Absent, Null, List}
    \cup {Obj(Field("name", n) @@ Field("arguments", a) @@ Field("clientInfo", c)) :
            n \in NameInputs, a \in ArgumentsInputs, c \in ClientInfoInputs}

Requests ==
    {Field("method", m) @@ Field("params", p) @@ Field("id", i) :
        m \in MethodInputs, p \in ParamsInputs, i \in IdInputs}

\* no exchange has been kept yet
SessionFresh ==
    [stage |-> "fresh", request |-> EmptyDict, calls |-> <<>>, log |-> <<>>,
     response |-> EmptyDict]

McpIdle ==
    [pc |-> "idle", request |-> EmptyDict, calls |-> <<>>, log |-> <<>>,
     response |-> EmptyDict]

\* a client posts a request to /
McpReceive ==
    /\ Serving
    /\ mcp.pc = "idle"
    /\ \E request \in Requests :
           mcp' = [McpIdle EXCEPT !.pc = "received", !.request = request]
    /\ UNCHANGED <<rest, stream, refresh,
                 startup_time, lifespan, clock, health, session>>

\* a mutant of McpEndpoint: the dispatcher remembers whether it has been
\* initialized and refuses every other method until it has
McpEndpointNeedsInitialize ==
    /\ mcp.pc = "received"
    /\ \E upstream \in Upstreams, generator \in Generators :
           LET done == mcp_endpoint(mcp.request, upstream, generator)
               refused ==
                   /\ Get(mcp.request, "method", Null) # Str("initialize")
                   /\ session.stage \notin {"initialized", "replayed_after_initialize"}
           IN  mcp' = IF refused
                      THEN [mcp EXCEPT
                               !.pc = "responded",
                               !.response =
                                   McpErrorResponse(mcp.request,
                                                    "Server not initialized")]
                      ELSE [mcp EXCEPT
                               !.pc = "responded", !.calls = done.calls,
                               !.log = done.log, !.response = done.response]
    /\ UNCHANGED <<rest, stream, refresh,
                 startup_time, lifespan, clock, health, session>>

\* the handler runs and its return value is sent
McpEndpoint ==
    /\ mcp.pc = "received"
    /\ \E upstream \in Upstreams, generator \in Generators :
           LET done == mcp_endpoint(mcp.request, upstream, generator)
           IN  mcp' = [mcp EXCEPT !.pc = "responded", !.calls = done.calls,
                                  !.log = done.log, !.response = done.response]
    /\ UNCHANGED <<rest, stream, refresh,
                 startup_time, lifespan, clock, health, session>>

\* the exchange is over
McpClose ==
    /\ mcp.pc = "responded"
    /\ mcp' = McpIdle
    /\ UNCHANGED <<rest, stream, refresh,
                 startup_time, lifespan, clock, health, session>>

McpNext == McpReceive \/ McpEndpoint \/ McpClose

(* The same request sent twice to POST /, with or without an initialize    *)
(* between the two.  `session` is history, not state of the program: it    *)
(* keeps the first exchange so that the second can be compared with it.    *)

\* the initialize requests sent between the two
InitializeRequests ==
    {Field("method", Str("initialize")) @@ Field("params", p)
     @@ Field("id", Num(7)) :
        p \in {Absent,
               Obj(Field("clientInfo",
                         Obj(("name" :> Str("n8n")) @@ ("version" :> Num(1)))))}}

\* the first request of the run, whatever it is
McpReceiveFirst ==
    /\ session.stage = "fresh"
    /\ McpReceive

\* the first exchange is over and is kept
McpKeep ==
    /\ mcp.pc = "responded"
    /\ session.stage = "fresh"
    /\ session' = [stage |-> "kept", request |-> mcp.request,
                   calls |-> mcp.calls, log |-> mcp.log,
                   response |-> mcp.response]
    /\ mcp' = McpIdle
    /\ UNCHANGED <<rest, stream, refresh, startup_time, lifespan, clock,
                   health>>

\* a client sends initialize
McpReceiveInitialize ==
    /\ Serving
    /\ mcp.pc = "idle"
    /\ session.stage = "kept"
    /\ \E request \in InitializeRequests :
           mcp' = [McpIdle EXCEPT !.pc = "received", !.request = request]
    /\ session' = [session EXCEPT !.stage = "initializing"]
    /\ UNCHANGED <<rest, stream, refresh, startup_time, lifespan, clock,
                   health>>

\* the initialize exchange is over
McpCloseInitialize ==
    /\ mcp.pc = "responded"
    /\ session.stage = "initializing"
    /\ mcp' = McpIdle
    /\ session' = [session EXCEPT !.stage = "initialized"]
    /\ UNCHANGED <<rest, stream, refresh, startup_time, lifespan, clock,
                   health>>

\* the kept request is sent again
McpReplay ==
    /\ Serving
    /\ mcp.pc = "idle"
    /\ session.stage \in {"kept", "initialized"}
    /\ mcp' = [McpIdle EXCEPT !.pc = "received", !.request = session.request]
    /\ session' = [session EXCEPT
                      !.stage = IF session.stage = "kept"
                                THEN "replayed"
                                ELSE "replayed_after_initialize"]
    /\ UNCHANGED <<rest, stream, refresh, startup_time, lifespan, clock,
                   health>>

McpSessionNext ==
    \/ McpReceiveFirst
    \/ McpEndpoint
    \/ McpKeep
    \/ McpReceiveInitialize
    \/ McpCloseInitialize
    \/ McpReplay

----------------------------------------------------------------------------
(* /pools and /analyze, POST and GET.  A handler either returns a value or *)
(* raises an HTTPException, which the framework turns into the response.   *)

YieldPoolRequest(chain, project) == [chain |-> chain, project |-> project]

AnalysisRequest(chain, project) == [chain |-> chain, project |-> project]

\* the YieldPool model built from the keys of one pool dict
YieldPool(pool) ==
    [chain |-> pool.chain, pool |-> pool.pool, project |-> pool.project,
     tvlUsd |-> pool.tvlUsd, apy |-> pool.apy, apyMean30d |-> pool.apyMean30d,
     predictions |-> pool.predictions]

HTTPException(status_code, detail) ==
    [raised |-> TRUE, status_code |-> status_code, detail |-> detail,
     value |-> Null]

Return(value) ==
    [raised |-> FALSE, status_code |-> 200, detail |-> "", value |-> value]

\* the response the framework sends for what a handler returned or raised
HttpResponse(outcome) ==
    IF outcome.raised
    THEN [status |-> outcome.status_code, body |-> [detail |-> outcome.detail]]
    ELSE [status |-> 200, body |-> outcome.value]

\* a mutant of get_pools: a failed fetch is answered with an empty list
get_pools_swallows_failure(request, upstream) ==
    LET pools == get_yield_pools(upstream, request.chain, request.project,
                                 FullContext)
        calls == <<Call("get_yield_pools", request.chain, request.project,
                        FullContext, pools)>>
    IN  [calls |-> calls,
         log |-> <<>>,
         outcome |-> IF pools.raised
                     THEN Return(<<>>)
                     ELSE Return([i \in 1..Len(pools.value) |->
                                     YieldPool(pools.value[i])])]

\* a mutant of get_pools: a failed fetch is tried a second time
get_pools_retries(request, upstream) ==
    LET pools == get_yield_pools(upstream, request.chain, request.project,
                                 FullContext)
        call == Call("get_yield_pools", request.chain, request.project,
                     FullContext, pools)
    IN  IF pools.raised
        THEN [calls |-> <<call, call>>,
              log |-> <<"ERROR Error fetching yield pools: " \o pools.exc>>,
              outcome |-> HTTPException(500, pools.exc)]
        ELSE [calls |-> <<call>>,
              log |-> <<>>,
              outcome |-> Return([i \in 1..Len(pools.value) |->
                                     YieldPool(pools.value[i])])]

\* POST /pools
get_pools(request, upstream) ==
    LET pools == get_yield_pools(upstream, request.chain, request.project,
                                 FullContext)
        calls == <<Call("get_yield_pools", request.chain, request.project,
                        FullContext, pools)>>
    IN  IF pools.raised
        THEN [calls |-> calls,
              log |-> <<"ERROR Error fetching yield pools: " \o pools.exc>>,
              outcome |-> HTTPException(500, pools.exc)]
        ELSE [calls |-> calls,
              log |-> <<>>,
              outcome |-> Return([i \in 1..Len(pools.value) |->
                                     YieldPool(pools.value[i])])]

\* a mutant of get_pools_get: the project is not passed on
get_pools_get_drops_project(chain, project, upstream) ==
    get_pools(YieldPoolRequest(chain, Null), upstream)

\* GET /pools
get_pools_get(chain, project, upstream) ==
    get_pools(YieldPoolRequest(chain, project), upstream)

\* POST /analyze
get_analysis(request, generator) ==
    LET analysis_prompt == analyze_yields(generator, request.chain, request.project)
        calls == <<Call("analyze_yields", request.chain, request.project, {},
                        analysis_prompt)>>
    IN  IF analysis_prompt.raised
        THEN [calls |-> calls,
              log |-> <<"ERROR Error generating analysis: " \o analysis_prompt.exc>>,
              outcome |-> HTTPException(500, analysis_prompt.exc)]
        ELSE [calls |-> calls,
              log |-> <<>>,
              outcome |-> Return([prompt |-> analysis_prompt.value])]

\* a mutant of get_analysis_get: chain and project change places
get_analysis_get_swaps_filter(chain, project, generator) ==
    get_analysis(AnalysisRequest(project, chain), generator)

\* GET /analyze
get_analysis_get(chain, project, generator) ==
    get_analysis(AnalysisRequest(chain, project), generator)

\* the JSON bodies a client posts: a field left out, null, or a string
Bodies ==
    {Field("chain", c) @@ Field("project", p) :
        c \in {Absent, Null, Str("Ethereum")}, p \in {Absent, Str("lido")}}

\* the query strings a client sends: a parameter left out, or a string
Queries ==
    {Field("chain", c) @@ Field("project", p) :
        c \in {Absent, Str("Ethereum")}, p \in {Absent, Str("lido")}}

RestNone ==
    [pc |-> "none", path |-> "", input |-> EmptyDict, world |-> Null,
     calls |-> <<>>, log |-> <<>>, response |-> EmptyDict]

\* the exchange of a handler that ran on `input` in the world `world`
RestDone(path, input, world, done) ==
    [pc |-> "done", path |-> path, input |-> input, world |-> world,
     calls |-> done.calls, log |-> done.log,
     response |-> HttpResponse(done.outcome)]

PostPools ==
    /\ Serving
    /\ \E body \in Bodies, upstream \in Upstreams :
           rest' = [rest EXCEPT !.POST =
               RestDone("/pools", body, upstream,
                        get_pools(YieldPoolRequest(Get(body, "chain", Null),
                                                   Get(body, "project", Null)),
                                  upstream))]
    /\ UNCHANGED <<mcp, stream, refresh,
                 startup_time, lifespan, clock, health, session>>

GetPools ==
    /\ Serving
    /\ \E query \in Queries, upstream \in Upstreams :
           rest' = [rest EXCEPT !.GET =
               RestDone("/pools", query, upstream,
                        get_pools_get(Get(query, "chain", Null),
                                      Get(query, "project", Null), upstream))]
    /\ UNCHANGED <<mcp, stream, refresh,
                 startup_time, lifespan, clock, health, session>>

PostAnalyze ==
    /\ Serving
    /\ \E body \in Bodies, generator \in Generators :
           rest' = [rest EXCEPT !.POST =
               RestDone("/analyze", body, generator,
                        get_analysis(AnalysisRequest(Get(body, "chain", Null),
                                                     Get(body, "project", Null)),
                                     generator))]
    /\ UNCHANGED <<mcp, stream, refresh,
                 startup_time, lifespan, clock, health, session>>

GetAnalyze ==
    /\ Serving
    /\ \E query \in Queries, generator \in Generators :
           rest' = [rest EXCEPT !.GET =
               RestDone("/analyze", query, generator,
                        get_analysis_get(Get(query, "chain", Null),
                                         Get(query, "project", Null), generator))]
    /\ UNCHANGED <<mcp, stream, refresh,
                 startup_time, lifespan, clock, health, session>>

RestNext == PostPools \/ GetPools \/ PostAnalyze \/ GetAnalyze

----------------------------------------------------------------------------
(* GET /pools/stream : the generator generate_stream, one action per yield. *)
(* stream.events are the chunks yielded so far, stream.pc the place where   *)
(* the generator is suspended.                                              *)

\* f"data: {json.dumps(chunk)}\n\n"
Sse(chunk) == [data |-> chunk]

FetchingChunk == [status |-> "fetching", message |-> "Fetching yield pools..."]

\* a mutant of DataChunk: the index counts from one
DataChunkOneBased(i, pools) ==
    [status |-> "data", index |-> i + 1, total |-> Len(pools), pool |-> pools[i + 1]]

DataChunk(i, pools) ==
    [status |-> "data", index |-> i, total |-> Len(pools), pool |-> pools[i + 1]]

CompletedChunk(pools) == [status |-> "completed", total |-> Len(pools)]

\* a mutant of ErrorChunk: the message of the failure is not sent
ErrorChunkGeneric(message) == [status |-> "error", error |-> "Internal Server Error"]

ErrorChunk(message) == [status |-> "error", error |-> message]

StreamClosed ==
    [pc |-> "closed", query |-> EmptyDict, chain |-> Null, project |-> Null,
     calls |-> <<>>, pools |-> <<>>, i |-> 0, exc |-> "", events |-> <<>>]

\* the handler: it returns the StreamingResponse over a generator not yet run
get_pools_stream ==
    /\ Serving
    /\ stream.pc \in {"closed", "done", "cancelled"}
    /\ \E query \in Queries :
           stream' = [StreamClosed EXCEPT !.pc = "start",
                                          !.query = query,
                                          !.chain = Get(query, "chain", Null),
                                          !.project = Get(query, "project", Null)]
    /\ UNCHANGED <<mcp, rest, refresh,
                 startup_time, lifespan, clock, health, session>>

\* the first yield
GenerateFetching ==
    /\ stream.pc = "start"
    /\ stream' = [stream EXCEPT !.pc = "fetch",
                                !.events = Append(@, Sse(FetchingChunk))]
    /\ UNCHANGED <<mcp, rest, refresh,
                 startup_time, lifespan, clock, health, session>>

\* pools = await get_yield_pools(...)
GenerateFetch ==
    /\ stream.pc = "fetch"
    /\ \E upstream \in Upstreams :
           LET pools == get_yield_pools(upstream, stream.chain, stream.project,
                                        FullContext)
               calls == <<Call("get_yield_pools", stream.chain, stream.project,
                               FullContext, pools)>>
           IN  stream' = IF pools.raised
                         THEN [stream EXCEPT !.pc = "except", !.calls = calls,
                                             !.exc = pools.exc]
                         ELSE [stream EXCEPT !.pc = "loop", !.calls = calls,
                                             !.pools = pools.value, !.i = 0]
    /\ UNCHANGED <<mcp, rest, refresh,
                 startup_time, lifespan, clock, health, session>>

\* one turn of the for loop
GenerateData ==
    /\ stream.pc = "loop"
    /\ stream.i < Len(stream.pools)
    /\ stream' = [stream EXCEPT
           !.i = @ + 1,
           !.events = Append(@, Sse(DataChunk(stream.i, stream.pools)))]
    /\ UNCHANGED <<mcp, rest, refresh,
                 startup_time, lifespan, clock, health, session>>

\* the yield after the loop, and the generator's end
GenerateCompleted ==
    /\ stream.pc = "loop"
    /\ stream.i = Len(stream.pools)
    /\ stream' = [stream EXCEPT
           !.pc = "done",
           !.events = Append(@, Sse(CompletedChunk(stream.pools)))]
    /\ UNCHANGED <<mcp, rest, refresh,
                 startup_time, lifespan, clock, health, session>>

\* a mutant of GenerateError: the completion signal is sent after the error
GenerateErrorThenCompleted ==
    /\ stream.pc = "except"
    /\ stream' = [stream EXCEPT
           !.pc = "done",
           !.events = @ \o <<Sse(ErrorChunk(stream.exc)),
                             Sse(CompletedChunk(stream.pools))>>]
    /\ UNCHANGED <<mcp, rest, refresh,
                 startup_time, lifespan, clock, health, session>>

\* the yield of the except block, and the generator's end
GenerateError ==
    /\ stream.pc = "except"
    /\ stream' = [stream EXCEPT
           !.pc = "done",
           !.events = Append(@, Sse(ErrorChunk(stream.exc)))]
    /\ UNCHANGED <<mcp, rest, refresh,
                 startup_time, lifespan, clock, health, session>>

\* the consumer disconnects: the suspended generator is cancelled, and
\* `except Exception` does not catch the cancellation
StreamDisconnect ==
    /\ stream.pc \in {"start", "fetch", "loop", "except"}
    /\ stream' = [stream EXCEPT !.pc = "cancelled"]
    /\ UNCHANGED <<mcp, rest, refresh,
                 startup_time, lifespan, clock, health, session>>

StreamNext ==
    \/ get_pools_stream
    \/ GenerateFetching
    \/ GenerateFetch
    \/ GenerateData
    \/ GenerateCompleted
    \/ GenerateError
    \/ StreamDisconnect

----------------------------------------------------------------------------
(* POST /refresh : refresh_data and the refresh_task it detaches.          *)
(* refresh[k] is the k-th call: the response its caller was given and the  *)
(* state of its task.                                                      *)

RefreshStarted ==
    [status |-> 200,
     body |-> [status |-> "refresh_started",
               message |-> "Background refresh initiated"]]

\* a mutant of refresh_data: a call that finds a task in flight joins it
\* and starts none of its own
refresh_data_joins_task_in_flight(calls_so_far) ==
    IF \E k \in DOMAIN calls_so_far : calls_so_far[k].pc \in {"pending", "awaiting"}
    THEN Append(calls_so_far,
                [response |-> RefreshStarted, pc |-> "joined", calls |-> <<>>,
                 log |-> <<>>])
    ELSE Append(calls_so_far,
                [response |-> RefreshStarted, pc |-> "pending", calls |-> <<>>,
                 log |-> <<>>])

\* a mutant of refresh_data: the handler awaits the task, so the call has
\* no response while the task runs
refresh_data_awaits_task(calls_so_far) ==
    Append(calls_so_far,
           [response |-> EmptyDict, pc |-> "pending", calls |-> <<>>,
            log |-> <<>>])

\* the handler: it registers the task and returns
refresh_data(calls_so_far) ==
    Append(calls_so_far,
           [response |-> RefreshStarted, pc |-> "pending", calls |-> <<>>,
            log |-> <<>>])

\* a mutant of refresh_task: a failed fetch replaces the caller's response
refresh_task_surfaces_failure(entry, upstream) ==
    LET pools == get_yield_pools(upstream, Null, Null, InfoContext)
        calls == <<Call("get_yield_pools", Null, Null, InfoContext, pools)>>
    IN  IF pools.raised
        THEN [entry EXCEPT
                 !.pc = "failed", !.calls = calls,
                 !.log = <<"ERROR Background data refresh failed: " \o pools.exc>>,
                 !.response = [status |-> 500, body |-> [detail |-> pools.exc]]]
        ELSE [entry EXCEPT
                 !.pc = "completed", !.calls = calls,
                 !.log = <<"INFO Background data refresh completed">>]

\* the task, from the return of its fetch to its end
refresh_task(entry, upstream) ==
    LET pools == get_yield_pools(upstream, Null, Null, InfoContext)
        calls == <<Call("get_yield_pools", Null, Null, InfoContext, pools)>>
    IN  IF pools.raised
        THEN [entry EXCEPT
                 !.pc = "failed", !.calls = calls,
                 !.log = <<"ERROR Background data refresh failed: " \o pools.exc>>]
        ELSE [entry EXCEPT
                 !.pc = "completed", !.calls = calls,
                 !.log = <<"INFO Background data refresh completed">>]

RefreshData ==
    /\ Serving
    /\ Len(refresh) < MaxRefresh
    /\ refresh' = refresh_data(refresh)
    /\ UNCHANGED <<mcp, rest, stream,
                 startup_time, lifespan, clock, health, session>>

\* the response is sent, the task starts and awaits its fetch
RefreshTaskStart ==
    /\ \E k \in DOMAIN refresh :
           /\ refresh[k].pc = "pending"
           /\ refresh' = [refresh EXCEPT ![k].pc = "awaiting"]
    /\ UNCHANGED <<mcp, rest, stream,
                 startup_time, lifespan, clock, health, session>>

\* the fetch of a task returns or raises
RefreshTaskReturn ==
    /\ \E k \in DOMAIN refresh, upstream \in Upstreams :
           /\ refresh[k].pc = "awaiting"
           /\ refresh' = [refresh EXCEPT ![k] = refresh_task(@, upstream)]
    /\ UNCHANGED <<mcp, rest, stream,
                 startup_time, lifespan, clock, health, session>>

RefreshNext == RefreshData \/ RefreshTaskStart \/ RefreshTaskReturn

----------------------------------------------------------------------------
(* The specifications *)

Init ==
    /\ mcp = McpIdle
    /\ rest = [GET |-> RestNone, POST |-> RestNone]
    /\ stream = StreamClosed
    /\ refresh = <<>>
    /\ startup_time = 0
    /\ lifespan = LifespanBoot
    /\ clock = 1
    /\ health = <<>>
    /\ session = SessionFresh

Next ==
    \/ LifespanNext
    \/ HealthNext
    \/ McpNext
    \/ RestNext
    \/ StreamNext
    \/ RefreshNext

\* the whole server
Spec == Init /\ [][Next]_vars

\* the server seen from one endpoint at a time
SpecMcp == Init /\ [][LifespanNext \/ McpNext]_vars

SpecRest == Init /\ [][LifespanNext \/ RestNext]_vars

SpecStream == Init /\ [][LifespanNext \/ StreamNext]_vars

SpecRefresh == Init /\ [][LifespanNext \/ RefreshNext]_vars

SpecHealth == Init /\ [][LifespanNext \/ HealthNext]_vars

\* POST / alone, every request sent a second time
SpecMcpSession == Init /\ [][LifespanNext \/ McpSessionNext]_vars

\* the server with one endpoint family in use in a run: every handler,
\* generator and task of the application, each family from the state the
\* lifespan left
McpAtRest == mcp = McpIdle /\ session = SessionFresh

RestAtRest == rest = [GET |-> RestNone, POST |-> RestNone]

StreamAtRest == stream = StreamClosed

RefreshAtRest == refresh = <<>>

HealthAtRest == health = <<>> /\ clock = startup_time

OneFamilyNext ==
    \/ LifespanNext
    \/ RestAtRest /\ StreamAtRest /\ RefreshAtRest /\ HealthAtRest /\ McpNext
    \/ McpAtRest /\ StreamAtRest /\ RefreshAtRest /\ HealthAtRest /\ RestNext
    \/ McpAtRest /\ RestAtRest /\ RefreshAtRest /\ HealthAtRest /\ StreamNext
    \/ McpAtRest /\ RestAtRest /\ StreamAtRest /\ HealthAtRest /\ RefreshNext
    \/ Serving /\ McpAtRest /\ RestAtRest /\ StreamAtRest /\ RefreshAtRest
       /\ HealthNext

SpecOneFamily == Init /\ [][OneFamilyNext]_vars

----------------------------------------------------------------------------
(* Properties of the JSON-RPC dispatcher, under SpecMcp *)

McpResponded == mcp.pc = "responded"

McpMethod == Get(mcp.request, "method", Null)

McpParams == Get(mcp.request, "params", Obj(EmptyDict))

McpIsError == "error" \in DOMAIN mcp.response

McpIsResult == "result" \in DOMAIN mcp.response

\* C1: every response of mcp_endpoint, a result or an error, carries the id
\* of its request: the value the request gave, null included, and null
\* when the request gave none.
C1_ResponseIdEchoesRequestId ==
    McpResponded =>
        /\ "id" \in DOMAIN mcp.response
        /\ IF "id" \in DOMAIN mcp.request
           THEN mcp.response.id = mcp.request["id"]
           ELSE mcp.response.id = Null

\* a request with "id": null whose tools/call fetch raised was answered
C1_Witness ==
    /\ McpResponded
    /\ "id" \in DOMAIN mcp.request
    /\ mcp.request["id"] = Null
    /\ McpMethod = Str("tools/call")
    /\ Len(mcp.calls) = 1
    /\ mcp.calls[1].returned.raised
    /\ McpIsError
    /\ mcp.response.id = Null

\* C2: a request whose method is not one of the five supported ones is
\* answered with an error of code -1 whose message contains the method.
C2_UnsupportedMethodIsError ==
    (McpResponded /\ McpMethod \notin {Str(m) : m \in KnownMethods}) =>
        /\ McpIsError
        /\ ~McpIsResult
        /\ mcp.response.error.code = -1
        /\ McpMethod.t = "str" =>
               Contains(mcp.response.error.message, McpMethod.s)

\* the method "resources/list" was refused by name
C2_Witness ==
    /\ McpResponded
    /\ McpMethod = Str("resources/list")
    /\ mcp.response.error.code = -1
    /\ mcp.response.error.message = "Unknown method: resources/list"

\* C8: every response carries jsonrpc "2.0" and exactly one of result and
\* error.
C8_ExactlyOneOfResultOrError ==
    McpResponded =>
        /\ "jsonrpc" \in DOMAIN mcp.response
        /\ mcp.response.jsonrpc = "2.0"
        /\ McpIsResult # McpIsError
        /\ McpIsError => DOMAIN mcp.response = {"jsonrpc", "id", "error"}
        /\ McpIsResult => DOMAIN mcp.response = {"jsonrpc", "id", "result"}

\* a prompts/get whose generator raised was answered with an error only
C8_Witness ==
    /\ McpResponded
    /\ McpMethod = Str("prompts/get")
    /\ Len(mcp.calls) = 1
    /\ mcp.calls[1].fn = "analyze_yields"
    /\ mcp.calls[1].returned.raised
    /\ McpIsError
    /\ ~McpIsResult

\* the name a tools/call or prompts/get request asks for, None when missing
McpName == Get(McpParams.f, "name", Null)

\* the text that names v in a message: the string itself, None for null
Named(v) == IF v.t = "str" THEN v.s ELSE "None"

\* C9: a tools/call whose params (a mapping, or left out) name anything but
\* get_yield_pools, or no tool at all, fails with code -1 and the message
\* "Unknown tool: <name>"; a prompts/get that names anything but
\* analyze_yields fails with code -1 and "Unknown prompt: <name>".
C9_UnknownToolOrPromptIsNamed ==
    (McpResponded /\ McpParams.t = "obj") =>
        /\ (McpMethod = Str("tools/call") /\ McpName # Str("get_yield_pools")) =>
               /\ McpIsError
               /\ mcp.response.error.code = -1
               /\ mcp.response.error.message = "Unknown tool: " \o Named(McpName)
               /\ mcp.calls = <<>>
        /\ (McpMethod = Str("prompts/get") /\ McpName # Str("analyze_yields")) =>
               /\ McpIsError
               /\ mcp.response.error.code = -1
               /\ mcp.response.error.message = "Unknown prompt: " \o Named(McpName)
               /\ mcp.calls = <<>>

\* the request of the spec's example, tools/call of "bogus", was refused
C9_Witness ==
    /\ McpResponded
    /\ McpMethod = Str("tools/call")
    /\ McpParams.t = "obj"
    /\ McpName = Str("bogus")
    /\ mcp.response.error.message = "Unknown tool: bogus"

----------------------------------------------------------------------------
(* Properties of the REST handlers, under SpecRest *)

\* the filter of a body or a query string: a field left out is no filter
FilterOf(input) ==
    [chain |-> Get(input, "chain", Null), project |-> Get(input, "project", Null)]

\* C6: a GET and a POST of the same path with the same filter, served from
\* the same provider or generator outcome, get the same status and body.
C6_GetEqualsPost ==
    (/\ rest.GET.pc = "done"
     /\ rest.POST.pc = "done"
     /\ rest.GET.path = rest.POST.path
     /\ rest.GET.world = rest.POST.world
     /\ FilterOf(rest.GET.input) = FilterOf(rest.POST.input)) =>
        rest.GET.response = rest.POST.response

\* GET /pools?project=lido and POST /pools {"project": "lido"} were both
\* served from an upstream holding a lido pool and another one
C6_Witness ==
    /\ rest.GET.pc = "done"
    /\ rest.POST.pc = "done"
    /\ rest.GET.path = "/pools"
    /\ rest.POST.path = "/pools"
    /\ rest.GET.world = rest.POST.world
    /\ rest.GET.world.ok
    /\ rest.GET.world.pools = <<PoolMsol, PoolSteth>>
    /\ FilterOf(rest.GET.input) = [chain |-> Null, project |-> Str("lido")]
    /\ FilterOf(rest.POST.input) = [chain |-> Null, project |-> Str("lido")]
    /\ rest.GET.response.body = <<PoolSteth>>

\* what C10 asks of one exchange
RestOutcomeMapped(e) ==
    e.pc = "done" =>
        /\ Len(e.calls) = 1
        /\ IF e.calls[1].returned.raised
           THEN /\ e.response.status = 500
                /\ e.response.body = [detail |-> e.world.error]
           ELSE /\ e.response.status = 200
                /\ IF e.path = "/pools"
                   THEN /\ Len(e.response.body) = Len(e.calls[1].returned.value)
                        /\ \A i \in 1..Len(e.response.body) :
                               e.response.body[i] = e.calls[1].returned.value[i]
                   ELSE e.response.body = [prompt |-> e.calls[1].returned.value]
        /\ e.calls[1].returned.raised = ~e.world.ok

\* C10: a failure of the provider (/pools) or of the generator (/analyze),
\* GET or POST, is answered 500 with the failure's message and nothing
\* else; a success is answered 200 with the pools in the provider's order,
\* or with {prompt: text}.
C10_FailureIs500SuccessIs200 ==
    RestOutcomeMapped(rest.GET) /\ RestOutcomeMapped(rest.POST)

\* a POST /pools met a failing provider and a GET /analyze a failing
\* generator
C10_Witness ==
    /\ rest.POST.pc = "done"
    /\ rest.POST.path = "/pools"
    /\ ~rest.POST.world.ok
    /\ rest.POST.response = [status |-> 500, body |-> [detail |-> "connect timeout"]]
    /\ rest.GET.pc = "done"
    /\ rest.GET.path = "/analyze"
    /\ ~rest.GET.world.ok
    /\ rest.GET.response.status = 500

----------------------------------------------------------------------------
(* Properties of the SSE generator, under SpecStream *)

\* the generator ran to its end: the consumer stayed until the last chunk
StreamEnded == stream.pc = "done"

\* what the provider returned to, or raised in, the generator's fetch
StreamFetched == stream.calls[1].returned

Status(k) == stream.events[k].data.status

\* C3: when the fetch returns N items, the stream read to its end is one
\* fetching event, then N data events with index 0..N-1 and total N, each
\* with the item the provider put at that index, then one completed event
\* with total N, and nothing else.
C3_SuccessfulStreamIsFetchingDataCompleted ==
    (StreamEnded /\ ~StreamFetched.raised) =>
        LET items == StreamFetched.value
            N == Len(items)
        IN  /\ Len(stream.events) = N + 2
            /\ stream.events[1] =
                   [data |-> [status |-> "fetching",
                              message |-> "Fetching yield pools..."]]
            /\ \A k \in 1..N :
                   stream.events[k + 1] =
                       [data |-> [status |-> "data", index |-> k - 1,
                                  total |-> N, pool |-> items[k]]]
            /\ stream.events[N + 2] =
                   [data |-> [status |-> "completed", total |-> N]]

\* a fetch that returned two different pools was streamed to its end
C3_Witness ==
    /\ StreamEnded
    /\ ~StreamFetched.raised
    /\ StreamFetched.value = <<PoolMsol, PoolSteth>>
    /\ Len(stream.events) = 4
    /\ stream.events[3].data.index = 1
    /\ stream.events[3].data.pool = PoolSteth

\* C4: when the fetch fails, the stream read to its end is one fetching
\* event and one error event with the failure's message: no data event, no
\* completed event, and the generator has ended.
C4_FailedStreamIsFetchingError ==
    (StreamEnded /\ StreamFetched.raised) =>
        stream.events =
            <<[data |-> [status |-> "fetching",
                         message |-> "Fetching yield pools..."]],
              [data |-> [status |-> "error", error |-> StreamFetched.exc]]>>

\* a fetch that raised "connect timeout" was streamed to its end
C4_Witness ==
    /\ StreamEnded
    /\ StreamFetched.raised
    /\ Len(stream.events) = 2
    /\ stream.events[2].data.error = "connect timeout"

Terminal(k) == Status(k) \in {"completed", "error"}

\* C7: at every moment the events sent are one fetching event, then data
\* events with index 0, 1, 2, ... and one same total, then at most one
\* terminal event, completed or error, which is the last; a stream read
\* to its end has exactly one terminal event.
C7_StreamShape ==
    LET n == Len(stream.events)
    IN  /\ \A k \in 1..n : (Status(k) = "fetching") = (k = 1)
        /\ \A k \in 1..n : Terminal(k) => k = n
        /\ \A k \in 1..n :
               Status(k) = "data" =>
                   /\ stream.events[k].data.index = k - 2
                   /\ stream.events[k].data.total = stream.events[2].data.total
        /\ \A k \in 1..n : Status(k) \in {"fetching", "data", "completed", "error"}
        /\ Cardinality({k \in 1..n : Terminal(k)}) <= 1
        /\ StreamEnded => (n >= 2 /\ Terminal(n))
        /\ (n >= 1 /\ Terminal(n)) => StreamEnded

\* a stream of one data event ended with completed
C7_Witness ==
    /\ StreamEnded
    /\ Len(stream.events) = 3
    /\ Status(1) = "fetching"
    /\ Status(2) = "data"
    /\ Status(3) = "completed"

----------------------------------------------------------------------------
(* Properties of the refresh trigger, under SpecRefresh *)

\* C5: every POST /refresh was answered 200 {status: "refresh_started"},
\* and the answer stays that whatever its task does afterwards: a task that
\* completed or failed left one log line and nothing else.
C5_RefreshAlwaysAcknowledged ==
    \A k \in DOMAIN refresh :
        /\ refresh[k].response.status = 200
        /\ refresh[k].response.body.status = "refresh_started"
        /\ refresh[k].pc \in {"pending", "awaiting", "completed", "failed"}
        /\ refresh[k].pc = "failed" =>
               /\ Len(refresh[k].log) = 1
               /\ Contains(refresh[k].log[1], "Background data refresh failed: ")
               /\ Contains(refresh[k].log[1], refresh[k].calls[1].returned.exc)
        /\ refresh[k].pc = "completed" =>
               refresh[k].log = <<"INFO Background data refresh completed">>

\* one call's task failed and another's completed, both acknowledged
C5_Witness ==
    \E j, k \in DOMAIN refresh :
        /\ refresh[j].pc = "failed"
        /\ refresh[j].calls[1].returned.raised
        /\ refresh[k].pc = "completed"
        /\ refresh[j].response.body.status = "refresh_started"
        /\ refresh[k].response.body.status = "refresh_started"

----------------------------------------------------------------------------
(* Failures of the collaborators behind POST /, under SpecMcp *)

\* the one call the handler made raised
McpCallRaised == mcp.calls # <<>> /\ mcp.calls[1].returned.raised

\* C11: when get_yield_pools raises during tools/call, or analyze_yields
\* during prompts/get, the response is the JSON-RPC error with code -1 and
\* the message of that failure, and no result; and whatever the request,
\* the handler returns a JSON-RPC envelope: no exception leaves it, the
\* except block included.
C11_CollaboratorFailureIsJsonRpcError ==
    McpResponded =>
        /\ mcp.response # InternalServerError
        /\ "jsonrpc" \in DOMAIN mcp.response
        /\ McpCallRaised =>
               /\ McpIsError
               /\ ~McpIsResult
               /\ mcp.response.error =
                      [code |-> -1, message |-> mcp.calls[1].returned.exc]

C11_Witness ==
    /\ McpResponded
    /\ McpMethod = Str("prompts/get")
    /\ McpCallRaised
    /\ mcp.calls[1].fn = "analyze_yields"
    /\ mcp.response.error = [code |-> -1, message |-> "prompt failed"]

----------------------------------------------------------------------------
(* The calls of the collaborators, over every endpoint *)

Range(seq) == {seq[i] : i \in DOMAIN seq}

\* every call the exchanges of the state have recorded
AllCalls ==
    Range(mcp.calls) \cup Range(rest.GET.calls) \cup Range(rest.POST.calls)
    \cup Range(stream.calls)
    \cup UNION {Range(refresh[k].calls) : k \in DOMAIN refresh}

FetchCalls == {c \in AllCalls : c.fn = "get_yield_pools"}

\* C12: every call of get_yield_pools, whichever handler, generator or task
\* makes it, is given a logger with both methods, info and error.
C12_EveryFetchGetsInfoAndError ==
    \A c \in FetchCalls : c.ctx = {"info", "error"}

----------------------------------------------------------------------------
(* Concurrent calls of POST /refresh, under SpecRefresh *)

\* every call has a task of its own, and a task that ended made one fetch,
\* with no filter
RefreshTasksAreSeparate ==
    \A k \in DOMAIN refresh :
        /\ refresh[k].pc \in {"pending", "awaiting", "completed", "failed"}
        /\ refresh[k].pc \in {"pending", "awaiting"} => refresh[k].calls = <<>>
        /\ refresh[k].pc \in {"completed", "failed"} =>
               /\ Len(refresh[k].calls) = 1
               /\ refresh[k].calls[1].fn = "get_yield_pools"
               /\ refresh[k].calls[1].chain = Null
               /\ refresh[k].calls[1].project = Null
               /\ refresh[k].calls[1].returned.raised = (refresh[k].pc = "failed")

\* a step of one call or of its task leaves every other call and task as
\* they were, and no call is ever dropped
RefreshStepTouchesOneTask ==
    /\ Len(refresh') >= Len(refresh)
    /\ \A k \in DOMAIN refresh :
           refresh'[k] # refresh[k] =>
               \A j \in DOMAIN refresh \ {k} : refresh'[j] = refresh[j]
    /\ Len(refresh') > Len(refresh) =>
           \A k \in DOMAIN refresh : refresh'[k] = refresh[k]

\* C13: K calls of POST /refresh start K tasks, one each, whatever the state
\* of the tasks started before; each task makes its own unfiltered fetch;
\* no call is merged with, waits for or is suppressed by another, and the
\* failure of one task changes nothing of the others.
C13_ConcurrentRefreshesAreIndependent ==
    []RefreshTasksAreSeparate /\ [][RefreshStepTouchesOneTask]_vars

\* two tasks in flight at once; the later one failed first and the earlier
\* one still awaits its fetch
C13_Witness ==
    /\ Len(refresh) = 2
    /\ refresh[1].pc = "awaiting"
    /\ refresh[2].pc = "failed"
    /\ refresh[1].calls = <<>>
    /\ Len(refresh[2].calls) = 1

\* a call whose task has not ended has its acknowledgement already, and no
\* fetch has returned yet
RefreshAnsweredBeforeTaskEnds ==
    \A k \in DOMAIN refresh :
        refresh[k].pc \in {"pending", "awaiting"} =>
            /\ refresh[k].response = RefreshStarted
            /\ refresh[k].calls = <<>>
            /\ refresh[k].log = <<>>

\* the step that takes a call is the step that answers it, with its task
\* registered and not yet started
RefreshAnsweredOnRegistration ==
    Len(refresh') > Len(refresh) =>
        /\ Len(refresh') = Len(refresh) + 1
        /\ refresh'[Len(refresh')].response = RefreshStarted
        /\ refresh'[Len(refresh')].pc = "pending"

\* C17: the acknowledgement of POST /refresh does not wait for the fetch of
\* the detached task: it is produced when the task is registered, before
\* the task has started, and it is there in every state in which the fetch
\* has not returned, so also when the fetch never returns.
C17_RefreshAnswerDoesNotWaitForFetch ==
    []RefreshAnsweredBeforeTaskEnds /\ [][RefreshAnsweredOnRegistration]_vars

\* a call acknowledged with 200 whose task still awaits its fetch
C17_Witness ==
    \E k \in DOMAIN refresh :
        /\ refresh[k].pc = "awaiting"
        /\ refresh[k].response.status = 200
        /\ refresh[k].response.body.status = "refresh_started"
        /\ refresh[k].calls = <<>>

----------------------------------------------------------------------------
(* The fetches of the requests, over every endpoint, under SpecOneFamily *)

\* the request on POST / is a tools/call of get_yield_pools whose params and
\* arguments can be read
McpNeedsPools ==
    /\ McpMethod = Str("tools/call")
    /\ HasGet(McpParams)
    /\ Get(McpParams.f, "name", Null) = Str("get_yield_pools")
    /\ HasGet(Get(McpParams.f, "arguments", Obj(EmptyDict)))

Fetches(calls) == SelectSeq(calls, LAMBDA c : c.fn = "get_yield_pools")

\* C14: a request that needs pool data makes exactly one fetch: a tools/call
\* of get_yield_pools, a POST or GET of /pools, a stream past its fetch and a
\* refresh task that ended each have one call of the provider, also when
\* that call failed; a request that needs none makes none; and the outcome
\* is the one the provider gave to this request, not an earlier one.
C14_OneFetchPerRequest ==
    /\ McpResponded =>
           /\ Len(Fetches(mcp.calls)) = IF McpNeedsPools THEN 1 ELSE 0
           /\ Len(mcp.calls) <= 1
    /\ \A verb \in {"GET", "POST"} :
           rest[verb].pc = "done" =>
               IF rest[verb].path = "/pools"
               THEN /\ Len(rest[verb].calls) = 1
                    /\ rest[verb].calls[1].fn = "get_yield_pools"
                    /\ rest[verb].calls[1].returned =
                           get_yield_pools(rest[verb].world,
                                           rest[verb].calls[1].chain,
                                           rest[verb].calls[1].project,
                                           rest[verb].calls[1].ctx)
               ELSE Fetches(rest[verb].calls) = <<>>
    /\ stream.pc \in {"closed", "start", "fetch"} =>
           stream.calls = <<>> /\ stream.pools = <<>>
    /\ stream.pc \in {"loop", "except", "done"} =>
           /\ Len(stream.calls) = 1
           /\ stream.calls[1].fn = "get_yield_pools"
           /\ ~stream.calls[1].returned.raised =>
                  stream.pools = stream.calls[1].returned.value
    /\ stream.pc = "cancelled" => Len(stream.calls) <= 1
    /\ \A k \in DOMAIN refresh :
           Len(refresh[k].calls) =
               IF refresh[k].pc \in {"completed", "failed"} THEN 1 ELSE 0

\* a POST /pools whose one fetch failed: one call, answered 500
C14_Witness ==
    /\ rest.POST.pc = "done"
    /\ rest.POST.path = "/pools"
    /\ Len(rest.POST.calls) = 1
    /\ rest.POST.calls[1].returned.raised
    /\ rest.POST.response.status = 500

\* the arguments of the request on POST /
McpArguments == Get(McpParams.f, "arguments", Obj(EmptyDict))

\* the call was given the chain and the project of `input`, None for a key
\* that is left out
PassedOn(call, input) ==
    /\ call.chain = Get(input, "chain", Null)
    /\ call.project = Get(input, "project", Null)

\* C18: on every transport the provider or generator is called with the
\* chain and the project the client gave, unchanged, and with None for a
\* field the client left out: the arguments of tools/call and prompts/get,
\* the body of a POST, the query of a GET and of the stream; the task of
\* /refresh always calls with no filter.
C18_FilterPassedOnUnchanged ==
    /\ (McpResponded /\ mcp.calls # <<>>) =>
           PassedOn(mcp.calls[1], McpArguments.f)
    /\ \A verb \in {"GET", "POST"} :
           rest[verb].pc = "done" =>
               /\ rest[verb].calls # <<>>
               /\ PassedOn(rest[verb].calls[1], rest[verb].input)
    /\ stream.calls # <<>> => PassedOn(stream.calls[1], stream.query)
    /\ \A k \in DOMAIN refresh :
           refresh[k].calls # <<>> => PassedOn(refresh[k].calls[1], EmptyDict)

\* a tools/call that gives a chain and leaves the project out: the provider
\* got the chain and None
C18_Witness ==
    /\ McpResponded
    /\ McpMethod = Str("tools/call")
    /\ mcp.calls # <<>>
    /\ DOMAIN McpArguments.f = {"chain"}
    /\ mcp.calls[1].chain = Str("Ethereum")
    /\ mcp.calls[1].project = Null

----------------------------------------------------------------------------
(* GET /health, under SpecHealth.  The clock of the model only advances:   *)
(* time.time() is read as a clock that is not set back while the process   *)
(* runs.                                                                   *)

\* C15: of any two responses of GET /health in one run, the later reports an
\* uptime at least as large as the earlier, and every response is a 200
\* whose status is "healthy".
C15_UptimeNeverDecreases ==
    /\ \A i \in DOMAIN health :
           /\ health[i].status = 200
           /\ health[i].body.status = "healthy"
    /\ \A i, j \in DOMAIN health :
           i < j => health[j].body.uptime >= health[i].body.uptime

\* two calls with time passing between them, and a third right after
C15_Witness ==
    /\ Len(health) = 3
    /\ health[2].body.uptime > health[1].body.uptime
    /\ health[3].body.uptime = health[2].body.uptime
    /\ health[3].body.status = "healthy"

----------------------------------------------------------------------------
(* The connectivity probe of the lifespan, under SpecOneFamily *)

\* the lifespan is where the probe's outcome says: once the probe has
\* returned or raised, requests are served, and the outcome is in the log
\* and nowhere else
ProbeOutcomeOnlyLogged ==
    /\ lifespan.pc \in {"boot", "probing", "serving"}
    /\ lifespan.probe = "none" <=> lifespan.pc \in {"boot", "probing"}
    /\ lifespan.probe = "ok" =>
           lifespan.log = <<"INFO DeFi Yields HTTP Server starting up...",
                            "INFO Successfully connected to DefiLlama API">>
    /\ lifespan.probe = "failed" =>
           lifespan.log = <<"INFO DeFi Yields HTTP Server starting up...",
                            "ERROR Failed to connect to DefiLlama API: timed out">>

\* a request served after a failed probe still makes its fetch
FetchAttemptedAfterFailedProbe ==
    lifespan.probe = "failed" =>
        /\ (McpResponded /\ McpNeedsPools) => Len(mcp.calls) = 1
        /\ \A verb \in {"GET", "POST"} :
               rest[verb].pc = "done" => Len(rest[verb].calls) = 1
        /\ stream.pc \in {"loop", "except", "done"} => Len(stream.calls) = 1
        /\ \A k \in DOMAIN refresh :
               refresh[k].pc \in {"completed", "failed"} =>
                   Len(refresh[k].calls) = 1

\* the step of the probe ends the startup, whatever the probe's outcome,
\* and touches nothing but the lifespan
ProbeStepCompletesStartup ==
    lifespan.pc = "probing" =>
        /\ lifespan'.pc = "serving"
        /\ lifespan'.probe \in {"ok", "failed"}
        /\ UNCHANGED <<mcp, rest, stream, refresh, startup_time, clock,
                       health, session>>

\* C16: a failure of the boot-time probe is logged and nothing else: the
\* startup completes and requests are served after a failed probe as after
\* a successful one, and a request served after a failed probe makes its
\* own fetch, whose outcome does not depend on the probe's.
C16_ProbeFailureDoesNotStopStartup ==
    /\ [](ProbeOutcomeOnlyLogged /\ FetchAttemptedAfterFailedProbe)
    /\ [][ProbeStepCompletesStartup]_vars

\* the probe failed, and a stream opened afterwards fetched two pools and
\* ran to its completed event
C16_Witness ==
    /\ lifespan.probe = "failed"
    /\ Serving
    /\ stream.pc = "done"
    /\ Len(stream.calls) = 1
    /\ ~stream.calls[1].returned.raised
    /\ Len(stream.calls[1].returned.value) = 2
    /\ stream.events[Len(stream.events)].data.status = "completed"

----------------------------------------------------------------------------
(* The process-wide state, under SpecOneFamily *)

\* before the lifespan has assigned it, startup_time is the 0 of the module
\* and no request has been served; afterwards it is the reading of the
\* clock the lifespan took
StartupTimeSetBeforeServing ==
    /\ lifespan.pc = "boot" =>
           /\ startup_time = 0
           /\ McpAtRest /\ RestAtRest /\ StreamAtRest /\ RefreshAtRest
           /\ health = <<>>
    /\ lifespan.pc # "boot" => startup_time >= 1 /\ startup_time <= clock
    /\ ~Serving =>
           /\ McpAtRest /\ RestAtRest /\ StreamAtRest /\ RefreshAtRest
           /\ health = <<>>

\* the only step that writes startup_time is the first step of the
\* lifespan, and only the lifespan moves the lifespan
OnlyLifespanWritesStartupTime ==
    /\ startup_time' # startup_time =>
           lifespan.pc = "boot" /\ lifespan'.pc = "probing"
    /\ lifespan.pc # "boot" => startup_time' = startup_time
    /\ lifespan' # lifespan => lifespan.pc \in {"boot", "probing"}

\* C20: startup_time is written once, by the startup of the lifespan and
\* before any request is served; no handler, generator or task writes it
\* or any other state of the process, whatever requests arrive.
C20_StartupTimeWrittenOnceByLifespan ==
    []StartupTimeSetBeforeServing /\ [][OnlyLifespanWritesStartupTime]_vars

\* /health was called twice while time passed: startup_time is still the
\* reading the lifespan took
C20_Witness ==
    /\ Serving
    /\ Len(health) >= 2
    /\ clock > startup_time
    /\ startup_time = 1
    /\ health[Len(health)].body.uptime = clock - startup_time

----------------------------------------------------------------------------
(* The dispatcher has no memory, under SpecMcpSession *)

McpReplayed ==
    /\ McpResponded
    /\ session.stage \in {"replayed", "replayed_after_initialize"}

\* the collaborator gave the second exchange what it gave the first
SameCollaboratorResults ==
    /\ Len(mcp.calls) = Len(session.calls)
    /\ \A i \in DOMAIN mcp.calls :
           mcp.calls[i].returned = session.calls[i].returned

====
